---- MODULE Spec2Model ----
(***************************************************************************)
(* Model of main.py: the DNS probes, the extractor configuration with its *)
(* temporary cookie file, the cascading title search, the format /        *)
(* thumbnail selection of extract_video_info and the two diagnostic       *)
(* endpoints.  The extractor (yt-dlp), the resolvers, the HTTP client and  *)
(* the filesystem are the environment: each of their calls is a           *)
(* nondeterministic choice over the outcomes the call can have.           *)
(***************************************************************************)
EXTENDS Integers, Sequences, FiniteSets, TLC

\* ------------------------------------------------------------------ bounds
MaxRequests == 2
MaxEntries == 2
MaxFormats == 2
MaxThumbs == 2

VARIABLES
    YOUTUBE_COOKIES,  \* the cookie blob is configured (non-empty)
    HTTP_PROXY,       \* proxy from the environment, "" when unset
    files,            \* temporary cookie files that exist on disk
    nextFile,         \* next unique name tempfile hands out
    served,           \* requests completed so far
    op,               \* operation in progress, "idle" when none
    arg,              \* its title or URL argument
    pc,               \* position inside the operation
    dns,              \* result of the probe made at entry
    ydl_opts,         \* the operation's extractor options
    cleaned,          \* what cleanup_cookie_file did with ydl_opts, "no" if not called
    tried,            \* search variants attempted so far
    calls,            \* arguments of the extract_info calls made so far
    resps,            \* what each search attempt got back
    outcome,          \* how the operation ended
    value,            \* what it returned
    report,           \* diagnostic booleans and the report being built
    info,             \* raw extractor result of extract_video_info
    result            \* the dictionary extract_video_info returns

vars == <<YOUTUBE_COOKIES, HTTP_PROXY, files, nextFile, served, op, arg, pc,
          dns, ydl_opts, cleaned, tried, calls, resps, outcome, value,
          report, info, result>>

\* ------------------------------------------------------- python values
\* Python's None, kept a record so that it compares with dictionaries.
NoneRec == [isNone |-> TRUE]
IsNone(x) == "isNone" \in DOMAIN x

\* d.get(k, default) on a dictionary whose absent keys are not in its domain
Get(d, k, default) == IF k \in DOMAIN d THEN d[k] ELSE default

\* truthiness of None / a dictionary
Truthy(x) == ~IsNone(x) /\ DOMAIN x # {}

\* all sequences over S of length at most n
SeqsUpTo(S, n) == UNION {[1..k -> S] : k \in 0..n}

\* --------------------------------------------------------- DNS probes
\* what socket.gethostbyname can do: return, raise socket.gaierror, or raise
\* an OSError that is not a gaierror (getaddrinfo's EAI_SYSTEM)
ResolverOutcomes == {"resolved", "gaierror", "oserror"}

test_dns_resolution(r) ==
    IF r = "resolved"
    THEN [raised |-> FALSE, works |-> TRUE, msg |-> "DNS resolution working"]
    ELSE IF r = "gaierror"
    THEN [raised |-> FALSE, works |-> FALSE, msg |-> "DNS resolution failed"]
    ELSE [raised |-> TRUE, works |-> FALSE, msg |-> "OSError"]

\* what resolver.resolve can do; every exception is caught
AltResolverOutcomes == {"answer", "exception"}

try_alternative_dns(a) ==
    [works |-> a = "answer",
     msg   |-> IF a = "answer" THEN "Alternative DNS works"
               ELSE "Alternative DNS failed"]

\* ------------------------------------------- extractor configuration
NoFile == 0

\* tempfile.NamedTemporaryFile / write: the file is created and written, the
\* creation fails, or the file is created and the write fails.
CreateOutcomes == {"created", "open_failed", "write_failed"}

create_cookie_file(c) ==
    IF ~YOUTUBE_COOKIES
    THEN [name |-> NoFile, files |-> files, nextFile |-> nextFile]
    ELSE IF c = "created"
    THEN [name |-> nextFile, files |-> files \cup {nextFile},
          nextFile |-> nextFile + 1]
    ELSE IF c = "write_failed"
    THEN [name |-> NoFile, files |-> files \cup {nextFile},
          nextFile |-> nextFile + 1]
    ELSE [name |-> NoFile, files |-> files, nextFile |-> nextFile]

base_opts ==
    [quiet |-> TRUE, socket_timeout |-> 30, retries |-> 5,
     fragment_retries |-> 5, extractor_retries |-> 3,
     file_access_retries |-> 3, sleep_interval |-> 1,
     max_sleep_interval |-> 5, force_ipv4 |-> TRUE,
     source_address |-> "0.0.0.0"]

NoOpts == [unbuilt |-> TRUE]

\* get_ydl_opts: probes (the alternative probe only logs), then the options.
\* The probe's uncaught exception leaves before any file is created.
get_ydl_opts(r, c) ==
    LET probe == test_dns_resolution(r)
        ck    == create_cookie_file(c)
        withProxy == IF HTTP_PROXY # "" THEN ("proxy" :> HTTP_PROXY) @@ base_opts
                     ELSE base_opts
        opts  == IF ck.name # NoFile THEN ("cookiefile" :> ck.name) @@ withProxy
                 ELSE withProxy
    IN  IF probe.raised
        THEN [raised |-> TRUE, opts |-> NoOpts, files |-> files,
              nextFile |-> nextFile]
        ELSE [raised |-> FALSE, opts |-> opts, files |-> ck.files,
              nextFile |-> ck.nextFile]

\* os.unlink either removes the file or raises (which is swallowed)
UnlinkOutcomes == {"unlinked", "unlink_failed"}

cleanup_cookie_file(opts, u) ==
    IF "cookiefile" \in DOMAIN opts /\ u = "unlinked"
    THEN files \ {opts.cookiefile}
    ELSE files

\* which branch cleanup_cookie_file took
CleanupStatus(opts, u) ==
    IF "cookiefile" \in DOMAIN opts THEN u ELSE "nofile"

\* ------------------------------------------------------ cascading search
PyNone == "None"

\* variant of search_queries: the broad query first
search_queries_broad_first(title) ==
    << <<"ytsearch5", title>>, <<"ytsearch1", title>> >>

\* f"ytsearch1:{title}", f"ytsearch5:{title}"
search_queries(title) == << <<"ytsearch1", title>>, <<"ytsearch5", title>> >>

\* what one extract_info(search_query) can give back: an exception, None, a
\* dictionary without 'entries', or one with a list of entries, each entry
\* None, a dictionary without 'url' or a dictionary with one.
VideoUrls == {"https://x/a", "https://x/b"}
Entries == {NoneRec, [id |-> "v"]} \cup {[id |-> "v", url |-> u] : u \in VideoUrls}
RaisedRec == [raised |-> TRUE]
SearchResults ==
    {RaisedRec, NoneRec, [_type |-> "playlist"]}
    \cup {[_type |-> "playlist", entries |-> es] : es \in SeqsUpTo(Entries, MaxEntries)}

\* the condition of lines 138-140
HasFirstUrl(search_results) ==
    /\ Truthy(search_results)
    /\ "entries" \in DOMAIN search_results
    /\ search_results.entries # <<>>
    /\ Truthy(search_results.entries[1])
    /\ "url" \in DOMAIN search_results.entries[1]

\* variant of SearchAttempt: extract_info's exception is not caught
SearchAttemptUncaught(ctor, resp) ==
    IF ctor = "raise" THEN "continue"
    ELSE IF resp = RaisedRec THEN "propagate"
    ELSE IF HasFirstUrl(resp) THEN "return"
    ELSE "continue"

\* one pass of the loop body, lines 133-147: "return", "continue" (the
\* except branch, or falling out of the with block) or "propagate"
SearchAttempt(ctor, resp) ==
    IF ctor = "raise" THEN "continue"
    ELSE IF resp = RaisedRec THEN "continue"
    ELSE IF HasFirstUrl(resp) THEN "return"
    ELSE "continue"

\* variant of GateBlocks: the probe's result is ignored
GateBlocksNever(probe) == FALSE

\* the gate of lines 113 and 245
GateBlocks(probe) == ~probe.works

\* ------------------------------------------------------ format selector
\* variant of IsCombined: "or" in place of "and"
IsCombinedEither(fmt) ==
    Get(fmt, "acodec", PyNone) # "none" \/ Get(fmt, "vcodec", PyNone) # "none"

\* the filter of line 279
IsCombined(fmt) ==
    Get(fmt, "acodec", PyNone) # "none" /\ Get(fmt, "vcodec", PyNone) # "none"

\* fmt.get('filesize') or fmt.get('filesize_approx')
FilesizeOf(fmt) ==
    IF "filesize" \in DOMAIN fmt /\ fmt.filesize # 0 THEN fmt.filesize
    ELSE Get(fmt, "filesize_approx", PyNone)

ProjectFormat(fmt) ==
    [format_id  |-> fmt.format_id,
     resolution |-> Get(fmt, "resolution", "N/A"),
     filesize   |-> FilesizeOf(fmt),
     url        |-> fmt.url]

\* the list comprehension of lines 272-280, left to right
RECURSIVE audio_video_formats(_)
audio_video_formats(formats) ==
    IF formats = <<>> THEN <<>>
    ELSE LET fmt  == Head(formats)
             rest == audio_video_formats(Tail(formats))
         IN  IF IsCombined(fmt) THEN <<ProjectFormat(fmt)>> \o rest ELSE rest

\* the generator of line 283
IsAudioOnly(fmt) ==
    /\ Get(fmt, "acodec", PyNone) # "none"
    /\ Get(fmt, "vcodec", PyNone) = "none"
    /\ Get(fmt, "ext", PyNone) = "m4a"

\* key=lambda x: x.get('abr', 0)
AbrKey(x) == Get(x, "abr", 0)

\* variant of Replaces: a later item with an equal key wins
ReplacesOnTie(candidate, best) == AbrKey(candidate) >= AbrKey(best)

\* max() keeps its current best unless a later item's key is strictly greater
Replaces(candidate, best) == AbrKey(candidate) > AbrKey(best)

RECURSIVE PyMaxFrom(_, _)
PyMaxFrom(best, rest) ==
    IF rest = <<>> THEN best
    ELSE PyMaxFrom(IF Replaces(Head(rest), best) THEN Head(rest) ELSE best,
                   Tail(rest))

\* max(..., key=..., default=None), lines 282-286
highest_audio(formats) ==
    LET candidates == SelectSeq(formats, IsAudioOnly)
    IN  IF candidates = <<>> THEN NoneRec
        ELSE PyMaxFrom(Head(candidates), Tail(candidates))

\* lines 288-293
highest_audio_info(h) ==
    IF Truthy(h)
    THEN [format_id |-> h.format_id,
          bitrate   |-> Get(h, "abr", "Unknown"),
          filesize  |-> FilesizeOf(h),
          url       |-> h.url]
    ELSE NoneRec

\* the loop of lines 261-268
RECURSIVE ScanThumbnails(_, _, _)
ScanThumbnails(thumbnails, max_width, best_thumbnail) ==
    IF thumbnails = <<>> THEN best_thumbnail
    ELSE LET thumb == Head(thumbnails)
             width == Get(thumb, "width", 0)
         IN  IF width > max_width
             THEN ScanThumbnails(Tail(thumbnails), width, Get(thumb, "url", PyNone))
             ELSE ScanThumbnails(Tail(thumbnails), max_width, best_thumbnail)

\* best_thumbnail or default_thumbnail
PyOr(a, b) == IF a = PyNone \/ a = "" THEN b ELSE a

\* the dictionary built at lines 256-300
extract_result(i) ==
    [title         |-> Get(i, "title", "Unknown Title"),
     formats       |-> audio_video_formats(Get(i, "formats", <<>>)),
     highest_audio |-> highest_audio_info(highest_audio(Get(i, "formats", <<>>))),
     thumbnail     |-> PyOr(ScanThumbnails(Get(i, "thumbnails", <<>>), 0, PyNone),
                            Get(i, "thumbnail", PyNone))]

\* ------------------------------------------------ troubleshooting report
DnsRecommendations ==
    <<"Check your internet connection",
      "Try using Google DNS (8.8.8.8, 8.8.4.4) or Cloudflare DNS (1.1.1.1)",
      "Flush your DNS cache",
      "Check if you're behind a firewall or proxy that blocks YouTube">>

HttpRecommendations ==
    <<"Check if YouTube is accessible from your location",
      "Try using a VPN if YouTube is blocked",
      "Check proxy settings if you're in a corporate environment">>

YtdlpRecommendations ==
    <<"Update yt-dlp to the latest version",
      "Check if your IP is rate-limited by YouTube",
      "Try using cookies if you have a YouTube account">>

\* variant of get_troubleshooting_recommendations: HTTP advice first
recommendations_http_first(dns_works, http_works, ytdlp_works) ==
    (IF ~http_works THEN HttpRecommendations ELSE <<>>)
    \o (IF ~dns_works THEN DnsRecommendations ELSE <<>>)
    \o (IF ~ytdlp_works THEN YtdlpRecommendations ELSE <<>>)

\* recommendations.extend(...) under each test
get_troubleshooting_recommendations(dns_works, http_works, ytdlp_works) ==
    LET r0 == <<>>
        r1 == IF ~dns_works THEN r0 \o DnsRecommendations ELSE r0
        r2 == IF ~http_works THEN r1 \o HttpRecommendations ELSE r1
        r3 == IF ~ytdlp_works THEN r2 \o YtdlpRecommendations ELSE r2
    IN  r3

\* ------------------------------------------------------------ the inputs
Titles == {"lofi hip hop radio", "no such video"}
Urls == {"https://www.youtube.com/watch?v=a", "https://example.invalid/b"}
Operations == {"resolve_title", "resolve_url", "health", "test_access"}
ArgsOf(o) == IF o = "resolve_title" THEN Titles
             ELSE IF o = "resolve_url" THEN Urls
             ELSE {""}

\* the extractor's format descriptors: acodec / vcodec a codec name, "none"
\* or absent; abr a number or absent; format_id unique within a result
EmptyDict == [k \in {} |-> k]
OptField(k, V) == {EmptyDict} \cup {k :> v : v \in V}
FormatBodies ==
    {a @@ v @@ b @@ [ext |-> e] :
        a \in OptField("acodec", {"aac", "none"}),
        v \in OptField("vcodec", {"h264", "none"}),
        b \in OptField("abr", {1, 2}),
        e \in {"m4a", "webm"}}
FormatLists ==
    {[i \in 1..Len(s) |-> s[i] @@ [format_id |-> i, url |-> "https://cdn/media"]] :
        s \in SeqsUpTo(FormatBodies, MaxFormats)}

ThumbUrls == {"https://i/1", "https://i/2"}
DefaultThumb == "https://i/default"
ThumbnailDescriptors ==
    {u @@ w : u \in OptField("url", ThumbUrls), w \in OptField("width", {0, 1, 2})}
ThumbnailLists == SeqsUpTo(ThumbnailDescriptors, MaxThumbs)

\* two whole results used by the request machine: the three-format scenario
\* with thumbnails, and a result with none of the optional keys
ScenarioInfo ==
    [title |-> "Video",
     formats |-> <<[format_id |-> 1, acodec |-> "aac", vcodec |-> "h264",
                    ext |-> "mp4", resolution |-> "1280x720", filesize |-> 1000,
                    url |-> "https://cdn/media"],
                   [format_id |-> 2, acodec |-> "aac", vcodec |-> "none",
                    ext |-> "m4a", abr |-> 128, filesize_approx |-> 500,
                    url |-> "https://cdn/media"],
                   [format_id |-> 3, acodec |-> "aac", vcodec |-> "none",
                    ext |-> "m4a", abr |-> 256, url |-> "https://cdn/media"]>>,
     thumbnails |-> <<[url |-> "https://i/1", width |-> 120],
                      [url |-> "https://i/2", width |-> 640]>>,
     thumbnail |-> DefaultThumb]
SampleInfos == {ScenarioInfo, [id |-> "v"]}

TEST_URL == "https://www.youtube.com/watch?v=dQw4w9WgXcQ"

\* ------------------------------------------------------------ the machine
RequestReset ==
    /\ op' = "idle" /\ arg' = "" /\ pc' = "idle" /\ dns' = "unset"
    /\ ydl_opts' = NoOpts /\ cleaned' = "no" /\ tried' = 0
    /\ calls' = <<>> /\ resps' = <<>> /\ outcome' = "none" /\ value' = PyNone
    /\ report' = NoneRec /\ info' = NoneRec /\ result' = NoneRec

Init ==
    /\ YOUTUBE_COOKIES \in BOOLEAN
    /\ HTTP_PROXY \in {"", "http://proxy:3128"}
    /\ files = {} /\ nextFile = 1 /\ served = 0
    /\ op = "idle" /\ arg = "" /\ pc = "idle" /\ dns = "unset"
    /\ ydl_opts = NoOpts /\ cleaned = "no" /\ tried = 0
    /\ calls = <<>> /\ resps = <<>> /\ outcome = "none" /\ value = PyNone
    /\ report = NoneRec /\ info = NoneRec /\ result = NoneRec

\* a request arrives
Start(o, a) ==
    /\ pc = "idle" /\ served < MaxRequests
    /\ op' = o /\ arg' = a
    /\ pc' = IF o = "health" THEN "health" ELSE "probe"
    /\ UNCHANGED <<YOUTUBE_COOKIES, HTTP_PROXY, files, nextFile, served, dns,
                   ydl_opts, cleaned, tried, calls, resps, outcome, value,
                   report, info, result>>

\* the response has been sent; nothing of the request is kept but the files
Finish ==
    /\ pc = "done"
    /\ served' = served + 1
    /\ RequestReset
    /\ UNCHANGED <<YOUTUBE_COOKIES, HTTP_PROXY, files, nextFile>>

\* lines 112-117 and 244-246: the probe at entry and the 503 gate
EntryProbe(r) ==
    /\ pc = "probe"
    /\ LET probe == test_dns_resolution(r)
       IN  IF probe.raised
           THEN dns' = "raised" /\ outcome' = "raised" /\ pc' = "done"
           ELSE /\ dns' = IF probe.works THEN "ok" ELSE "fail"
                /\ IF GateBlocks(probe)
                   THEN outcome' = "503" /\ pc' = "done"
                   ELSE outcome' = outcome /\ pc' = "build"
    /\ UNCHANGED <<YOUTUBE_COOKIES, HTTP_PROXY, files, nextFile, served, op,
                   arg, ydl_opts, cleaned, tried, calls, resps, value, report,
                   info, result>>

\* lines 119-124 and 248-251: {**get_ydl_opts(), ...}
BuildOpts(r, c, more, next) ==
    /\ pc = "build"
    /\ LET g == get_ydl_opts(r, c)
       IN  /\ files' = g.files /\ nextFile' = g.nextFile
           /\ IF g.raised
              THEN ydl_opts' = ydl_opts /\ outcome' = "raised" /\ pc' = "done"
              ELSE ydl_opts' = more @@ g.opts /\ outcome' = outcome /\ pc' = next
    /\ UNCHANGED <<YOUTUBE_COOKIES, HTTP_PROXY, served, op, arg, dns, cleaned,
                   tried, calls, resps, value, report, info, result>>

T_Probe(r) == op = "resolve_title" /\ EntryProbe(r)

T_Build(r, c) ==
    /\ op = "resolve_title"
    /\ BuildOpts(r, c, [extract_flat |-> TRUE, playlist_items |-> "1",
                        no_warnings |-> TRUE], "search")

\* one pass of the loop of lines 132-147; when the pass that falls through
\* was the last one, lines 149-153 follow
T_Attempt(ctor, resp, u) ==
    /\ op = "resolve_title" /\ pc = "search"
    /\ tried < Len(search_queries(arg))
    /\ ctor = "raise" => resp = RaisedRec
    /\ LET q    == search_queries(arg)[tried + 1]
           step == SearchAttempt(ctor, resp)
       IN  /\ tried' = tried + 1
           /\ calls' = IF ctor = "ok" THEN Append(calls, q) ELSE calls
           /\ resps' = Append(resps, [ctor |-> ctor, resp |-> resp])
           /\ IF step = "return"
              THEN /\ value' = resp.entries[1].url
                   /\ files' = cleanup_cookie_file(ydl_opts, u)
                   /\ cleaned' = CleanupStatus(ydl_opts, u)
                   /\ outcome' = "ok" /\ pc' = "done"
              ELSE IF step = "propagate"
              THEN /\ outcome' = "raised" /\ pc' = "done"
                   /\ UNCHANGED <<value, files, cleaned>>
              ELSE IF tried + 1 >= Len(search_queries(arg))
              THEN /\ files' = cleanup_cookie_file(ydl_opts, u)
                   /\ cleaned' = CleanupStatus(ydl_opts, u)
                   /\ outcome' = "404" /\ pc' = "done"
                   /\ value' = value
              ELSE UNCHANGED <<value, files, cleaned, outcome, pc>>
    /\ UNCHANGED <<YOUTUBE_COOKIES, HTTP_PROXY, nextFile, served, op, arg, dns,
                   ydl_opts, report, info, result>>

U_Probe(r) == op = "resolve_url" /\ EntryProbe(r)

U_Build(r, c) ==
    op = "resolve_url" /\ BuildOpts(r, c, [extract_flat |-> FALSE], "extract")

\* what the with statement and the try of lines 253-255 and 305-307 do with
\* a failing constructor and a failing extract_info
UrlAttempt(ctor, e) ==
    IF ctor = "raise" THEN "propagate"
    ELSE IF e = RaisedRec THEN "fail500"
    ELSE "process"

\* lines 253-255: the constructor, outside the try, and extract_info inside
U_Extract(ctor, e, u) ==
    /\ op = "resolve_url" /\ pc = "extract"
    /\ ctor = "raise" => e = RaisedRec
    /\ LET step == UrlAttempt(ctor, e)
       IN  /\ calls' = IF ctor = "ok" THEN Append(calls, arg) ELSE calls
           /\ IF step = "propagate"
              THEN /\ outcome' = "raised" /\ pc' = "done"
                   /\ UNCHANGED <<files, cleaned, info>>
              ELSE IF step = "fail500"
              THEN /\ files' = cleanup_cookie_file(ydl_opts, u)
                   /\ cleaned' = CleanupStatus(ydl_opts, u)
                   /\ outcome' = "500" /\ pc' = "done"
                   /\ info' = info
              ELSE /\ info' = e /\ pc' = "process"
                   /\ UNCHANGED <<files, cleaned, outcome>>
    /\ UNCHANGED <<YOUTUBE_COOKIES, HTTP_PROXY, nextFile, served, op, arg, dns,
                   ydl_opts, tried, resps, value, report, result>>

\* lines 256-307: the selection on the raw result; info.get on None raises
\* inside the try
U_Process(u) ==
    /\ op = "resolve_url" /\ pc = "process"
    /\ files' = cleanup_cookie_file(ydl_opts, u)
    /\ cleaned' = CleanupStatus(ydl_opts, u)
    /\ pc' = "done"
    /\ IF IsNone(info)
       THEN outcome' = "500" /\ result' = result
       ELSE outcome' = "ok" /\ result' = extract_result(info)
    /\ UNCHANGED <<YOUTUBE_COOKIES, HTTP_PROXY, nextFile, served, op, arg, dns,
                   ydl_opts, tried, calls, resps, value, report, info>>

\* GET /health, lines 157-167
Health(r, a) ==
    /\ op = "health" /\ pc = "health"
    /\ LET probe == test_dns_resolution(r)
           alt   == try_alternative_dns(a)
       IN  IF probe.raised
           THEN outcome' = "raised" /\ report' = report
           ELSE /\ outcome' = "status"
                /\ report' = [status |-> IF probe.works THEN "healthy"
                                         ELSE "unhealthy",
                              dns_resolution |-> probe.msg,
                              alternative_dns |-> alt.msg]
    /\ pc' = "done"
    /\ UNCHANGED <<YOUTUBE_COOKIES, HTTP_PROXY, files, nextFile, served, op,
                   arg, dns, ydl_opts, cleaned, tried, calls, resps, value,
                   info, result>>

ErrorReport == [error |-> "OSError", status |-> "failed"]

\* GET /test-youtube-access, line 175; an exception reaches line 206
A_Probe(r) ==
    /\ op = "test_access" /\ pc = "probe"
    /\ LET probe == test_dns_resolution(r)
       IN  IF probe.raised
           THEN /\ outcome' = "error_report" /\ report' = ErrorReport
                /\ pc' = "done"
           ELSE /\ report' = [dns_works |-> probe.works]
                /\ outcome' = outcome /\ pc' = "http"
    /\ UNCHANGED <<YOUTUBE_COOKIES, HTTP_PROXY, files, nextFile, served, op,
                   arg, dns, ydl_opts, cleaned, tried, calls, resps, value,
                   info, result>>

\* lines 178-184: requests.get answers 200, another status, or raises
HttpOutcomes == {"200", "other_status", "exception"}

A_Http(h) ==
    /\ op = "test_access" /\ pc = "http"
    /\ report' = [dns_works |-> report.dns_works, http_works |-> h = "200"]
    /\ pc' = "smoke"
    /\ UNCHANGED <<YOUTUBE_COOKIES, HTTP_PROXY, files, nextFile, served, op,
                   arg, dns, ydl_opts, cleaned, tried, calls, resps, outcome,
                   value, info, result>>

\* lines 187-204: the smoke test inside its own try, then the report; the
\* options are never handed to cleanup_cookie_file
A_Smoke(r, c, ctor, e) ==
    /\ op = "test_access" /\ pc = "smoke"
    /\ ctor = "raise" => e = RaisedRec
    /\ LET g == get_ydl_opts(r, c)
           called == ~g.raised /\ ctor = "ok"
           ytdlp_works == called /\ e # RaisedRec /\ ~IsNone(e)
       IN  /\ files' = g.files /\ nextFile' = g.nextFile
           /\ ydl_opts' = IF g.raised THEN ydl_opts ELSE g.opts
           /\ calls' = IF called THEN Append(calls, TEST_URL) ELSE calls
           /\ report' =
                [dns_resolution |-> [works |-> report.dns_works],
                 http_connection |-> [works |-> report.http_works],
                 ytdlp_functionality |-> [works |-> ytdlp_works],
                 recommendations |->
                     get_troubleshooting_recommendations(
                         report.dns_works, report.http_works, ytdlp_works)]
    /\ outcome' = "report" /\ pc' = "done"
    /\ UNCHANGED <<YOUTUBE_COOKIES, HTTP_PROXY, served, op, arg, dns, cleaned,
                   tried, resps, value, info, result>>

Ctors == {"ok", "raise"}

Next ==
    \/ \E o \in Operations : \E a \in ArgsOf(o) : Start(o, a)
    \/ \E r \in ResolverOutcomes : T_Probe(r)
    \/ \E r \in ResolverOutcomes, c \in CreateOutcomes : T_Build(r, c)
    \/ \E ctor \in Ctors, resp \in SearchResults, u \in UnlinkOutcomes :
          T_Attempt(ctor, resp, u)
    \/ \E r \in ResolverOutcomes : U_Probe(r)
    \/ \E r \in ResolverOutcomes, c \in CreateOutcomes : U_Build(r, c)
    \/ \E ctor \in Ctors, e \in {RaisedRec, NoneRec} \cup SampleInfos,
          u \in UnlinkOutcomes : U_Extract(ctor, e, u)
    \/ \E u \in UnlinkOutcomes : U_Process(u)
    \/ \E r \in ResolverOutcomes, a \in AltResolverOutcomes : Health(r, a)
    \/ \E r \in ResolverOutcomes : A_Probe(r)
    \/ \E h \in HttpOutcomes : A_Http(h)
    \/ \E r \in ResolverOutcomes, c \in CreateOutcomes, ctor \in Ctors,
          e \in {RaisedRec, NoneRec} \cup SampleInfos : A_Smoke(r, c, ctor, e)
    \/ Finish

Spec == Init /\ [][Next]_vars

\* --------------------------------------------- the selection on its own
\* extract_video_info at line 256, holding a raw result drawn from the
\* bounded descriptor lists, with DNS resolved and no cookie blob configured
InitSelect(infos) ==
    /\ YOUTUBE_COOKIES = FALSE /\ HTTP_PROXY = ""
    /\ files = {} /\ nextFile = 1 /\ served = 0
    /\ op = "resolve_url" /\ arg \in Urls /\ pc = "process" /\ dns = "ok"
    /\ ydl_opts = [extract_flat |-> FALSE] @@ base_opts
    /\ cleaned = "no" /\ tried = 0
    /\ calls = <<arg>> /\ resps = <<>> /\ outcome = "none" /\ value = PyNone
    /\ report = NoneRec /\ result = NoneRec
    /\ info \in infos

InitFormats == InitSelect({[formats |-> fl] : fl \in FormatLists})

InitThumbs ==
    InitSelect({[thumbnails |-> tl] @@ d :
                   tl \in ThumbnailLists,
                   d \in OptField("thumbnail", {DefaultThumb})})

NextSelect == \E u \in UnlinkOutcomes : U_Process(u)

SpecFormats == InitFormats /\ [][NextSelect]_vars

SpecThumbs == InitThumbs /\ [][NextSelect]_vars

\* ================================================================ claims
IsResolve == op \in {"resolve_title", "resolve_url"}

Yielded(a) ==
    /\ a.ctor = "ok"
    /\ "entries" \in DOMAIN a.resp
    /\ Len(a.resp.entries) > 0
    /\ "url" \in DOMAIN a.resp.entries[1]

Narrow == <<"ytsearch1", arg>>
Broad == <<"ytsearch5", arg>>

\* C2: resolve_title calls the extractor at most twice, the narrow query
\* before the broad one; an attempt is made only when no earlier attempt
\* yielded a first-entry URL, and an attempt that yields one ends the
\* operation at once with that URL as its result.
C2_CascadeAtMostTwoInOrder ==
    op = "resolve_title" =>
        /\ Len(calls) <= 2
        /\ calls \in {<<>>, <<Narrow>>, <<Broad>>, <<Narrow, Broad>>}
        /\ Len(resps) <= 2
        /\ \A k \in 1..Len(resps) :
              /\ resps[k].ctor = "ok" =>
                    \E i \in 1..Len(calls) :
                        calls[i] = (IF k = 1 THEN Narrow ELSE Broad)
              /\ \A j \in 1..(k - 1) : ~Yielded(resps[j])
              /\ Yielded(resps[k]) =>
                    /\ k = Len(resps) /\ pc = "done" /\ outcome = "ok"
                    /\ value = resps[k].resp.entries[1].url
        /\ outcome = "ok" => Len(resps) > 0 /\ Yielded(resps[Len(resps)])

C2_Witness ==
    /\ op = "resolve_title" /\ outcome = "ok"
    /\ calls = <<Narrow, Broad>>
    /\ value = "https://x/a"

\* C3: in resolve_title no search attempt's exception ends the operation:
\* once an attempt has been made the operation is still running, has
\* returned a URL or has failed with 404; and it fails with 404 exactly when
\* it is over, both variants were attempted and neither yielded a URL.
C3_AttemptFailuresNeverSurface ==
    op = "resolve_title" =>
        /\ resps # <<>> => outcome \in {"none", "ok", "404"}
        /\ outcome = "404" <=>
              /\ pc = "done" /\ Len(resps) = 2
              /\ \A k \in 1..Len(resps) : ~Yielded(resps[k])

C3_Witness ==
    /\ op = "resolve_title" /\ outcome = "404" /\ Len(resps) = 2
    /\ resps[1].ctor = "ok" /\ resps[1].resp = RaisedRec
    /\ resps[2].ctor = "ok" /\ resps[2].resp = RaisedRec

\* C4: a resolve_title or resolve_url that is over and whose options hold a
\* cookie file has run cleanup_cookie_file on them, on every exit path.
C4_CookieFileReleasedOnEveryExit ==
    (IsResolve /\ pc = "done" /\ "cookiefile" \in DOMAIN ydl_opts) =>
        cleaned # "no"

\* C5: for the diagnostic report (GET /test-youtube-access), the operation
\* the claim names beside those of C4: once it is over, the cookie file of
\* the extractor options it built no longer exists on the filesystem.
C5_CookieFileNeverOutlivesRequest ==
    (op = "test_access" /\ pc = "done" /\ "cookiefile" \in DOMAIN ydl_opts)
        => ydl_opts.cookiefile \notin files

\* the two readings of "the codec is present"
CodecPresent(fmt, k) == k \in DOMAIN fmt /\ fmt[k] # "none"
NotMarkedNone(fmt, k) == k \notin DOMAIN fmt \/ fmt[k] # "none"

Selected == pc = "done" /\ op = "resolve_url" /\ "formats" \in DOMAIN info

\* format ids of a sequence of descriptors
IdsOf(fmts) == [k \in 1..Len(fmts) |-> fmts[k].format_id]

BothPresent(fmt) == CodecPresent(fmt, "acodec") /\ CodecPresent(fmt, "vcodec")
NeitherMarkedNone(fmt) ==
    NotMarkedNone(fmt, "acodec") /\ NotMarkedNone(fmt, "vcodec")

\* C6 as stated: combined_formats is the subsequence of the descriptors that
\* carry an audio codec and a video codec, an absent field not counting as
\* a codec.
C6_CombinedIsBothPresent ==
    Selected =>
        /\ outcome = "ok"
        /\ IdsOf(result.formats) = IdsOf(SelectSeq(info.formats, BothPresent))

\* C6 amended: combined_formats is the subsequence, in the original order,
\* of the descriptors neither of whose codec fields is the marker "none"
\* (an absent field passes), each carrying its descriptor's id and url.
C6_CombinedIsNeitherNone ==
    Selected =>
        /\ outcome = "ok"
        /\ IdsOf(result.formats) = IdsOf(SelectSeq(info.formats, NeitherMarkedNone))
        /\ \A k \in 1..Len(result.formats) :
              LET src == info.formats[result.formats[k].format_id]
              IN  /\ NeitherMarkedNone(src)
                  /\ result.formats[k].url = src.url

C6_Witness ==
    /\ Selected /\ Len(info.formats) = 2
    /\ "acodec" \notin DOMAIN info.formats[1]
    /\ BothPresent(info.formats[2])
    /\ IdsOf(result.formats) = <<1, 2>>

\* best_audio of the selection against a notion q of "qualifying": null
\* when nothing qualifies, else the first qualifying descriptor of maximum
\* bitrate, a missing bitrate counting as 0
BestAudioAmong(fmts, q(_)) ==
    LET C == {i \in 1..Len(fmts) : q(fmts[i])}
        Abr(i) == IF "abr" \in DOMAIN fmts[i] THEN fmts[i].abr ELSE 0
        best == result.highest_audio
    IN  IF C = {} THEN IsNone(best)
        ELSE /\ ~IsNone(best)
             /\ \E i \in C :
                   /\ best.format_id = fmts[i].format_id
                   /\ \A j \in C : Abr(j) <= Abr(i)
                   /\ \A j \in C : j < i => Abr(j) < Abr(i)
                   /\ IF "abr" \in DOMAIN fmts[i]
                      THEN best.bitrate = fmts[i].abr
                      ELSE best.bitrate = "Unknown"

QualifiesAsStated(fmt) ==
    /\ CodecPresent(fmt, "acodec")
    /\ "vcodec" \in DOMAIN fmt /\ fmt.vcodec = "none"
    /\ "ext" \in DOMAIN fmt /\ fmt.ext = "m4a"

QualifiesAmended(fmt) ==
    /\ NotMarkedNone(fmt, "acodec")
    /\ "vcodec" \in DOMAIN fmt /\ fmt.vcodec = "none"
    /\ "ext" \in DOMAIN fmt /\ fmt.ext = "m4a"

\* C7 as stated: best_audio is the first maximum-bitrate descriptor among
\* those with an audio codec present, video codec "none" and ext m4a, and
\* null when there is none; the operation succeeds.
C7_BestAudioAmongPresent ==
    Selected => outcome = "ok" /\ BestAudioAmong(info.formats, QualifiesAsStated)

\* C7 amended: the candidates are the descriptors whose audio codec is not
\* the marker "none" (an absent audio codec qualifies), whose video codec is
\* "none" and whose ext is m4a; best_audio is the first of them with maximum
\* bitrate, a missing bitrate counting as 0, and null when there is none; the
\* operation succeeds.
C7_BestAudioAmongNotNone ==
    Selected => outcome = "ok" /\ BestAudioAmong(info.formats, QualifiesAmended)

C7_Witness ==
    /\ Selected /\ Len(info.formats) = 2
    /\ QualifiesAmended(info.formats[1]) /\ QualifiesAmended(info.formats[2])
    /\ AbrKey(info.formats[1]) = AbrKey(info.formats[2])
    /\ result.highest_audio.format_id = 1

ThumbsSelected == pc = "done" /\ op = "resolve_url" /\ "thumbnails" \in DOMAIN info

\* C8: the thumbnail is the URL of a list entry of maximum width (missing
\* width counting as 0) when such an entry has a URL; the default is used
\* only if no entry of the list has a URL; the result is null only when no
\* entry has a URL and there is no default.
C8_ThumbnailIsWidest ==
    ThumbsSelected =>
        LET ts == info.thumbnails
            W(i) == IF "width" \in DOMAIN ts[i] THEN ts[i].width ELSE 0
            WithUrl == {i \in 1..Len(ts) : "url" \in DOMAIN ts[i]}
            Widest == {i \in 1..Len(ts) : \A j \in 1..Len(ts) : W(j) <= W(i)}
        IN  /\ (Widest \cap WithUrl # {}) =>
                  \E i \in Widest \cap WithUrl : result.thumbnail = ts[i].url
            /\ WithUrl # {} => \E i \in WithUrl : result.thumbnail = ts[i].url
            /\ result.thumbnail = PyNone =>
                  (WithUrl = {} /\ "thumbnail" \notin DOMAIN info)

\* C9: the recommendations of the report are the DNS list (4 strings) if
\* the DNS test failed, then the HTTP list (3) if the HTTP test failed, then
\* the extractor list (3) if the smoke test failed, and nothing else; they
\* are empty exactly when all three tests passed.
C9_RecommendationsPerFailingDimension ==
    (op = "test_access" /\ outcome = "report") =>
        LET d  == report.dns_resolution.works
            h  == report.http_connection.works
            y  == report.ytdlp_functionality.works
            rs == report.recommendations
            nd == IF d THEN 0 ELSE 4
            nh == IF h THEN 0 ELSE 3
            ny == IF y THEN 0 ELSE 3
        IN  /\ Len(rs) = nd + nh + ny
            /\ (rs = <<>>) <=> (d /\ h /\ y)
            /\ ~d => SubSeq(rs, 1, 4) = DnsRecommendations
            /\ ~h => SubSeq(rs, nd + 1, nd + 3) = HttpRecommendations
            /\ ~y => SubSeq(rs, nd + nh + 1, nd + nh + 3) = YtdlpRecommendations
            /\ Len(DnsRecommendations) = 4
            /\ Len(HttpRecommendations) = 3
            /\ Len(YtdlpRecommendations) = 3

C9_Witness ==
    /\ op = "test_access" /\ outcome = "report"
    /\ ~report.dns_resolution.works
    /\ ~report.http_connection.works
    /\ report.ytdlp_functionality.works
    /\ Len(report.recommendations) = 7

\* C10: GET /health and GET /test-youtube-access end with a response of
\* their own (the status, the report or the error-shaped report), never
\* with an exception, whatever the resolvers, the HTTP check and the
\* extractor do.
C10_DiagnosticsNeverRaise ==
    (op \in {"health", "test_access"} /\ pc = "done") =>
        outcome \in {"status", "report", "error_report"}

====
